---- MODULE Spec2Model ----
(***************************************************************************)
(* Model of runner/ssh/runner.go: the connection resolver (toConnection,   *)
(* loadPubKey), session construction (New) and the Runner's operations     *)
(* (SetStdoutWriter, SetStderrWriter, StdoutPipe, StderrPipe, Run, Start,  *)
(* Wait, Close, ExitCode).                                                 *)
(*                                                                         *)
(* Run and Wait block the calling goroutine until the remote command       *)
(* terminates, so each is a call step and a return step; Close may be      *)
(* called from another goroutine in between.  Every other operation is one *)
(* step.  The crypto/ssh session and client are modelled by the variable   *)
(* lib, as far as the Runner's calls observe them.                         *)
(***************************************************************************)
EXTENDS Integers, Sequences, FiniteSets, TLC

VARIABLES
    r,          \* the Runner struct (runner.go 46-54)
    held,       \* TRUE when New has returned a non-nil *Runner to the caller
    pc,         \* "idle", or the blocking call in flight: "run" / "wait"
    lib,        \* the state of the ssh client and session behind r.client / r.session
    last,       \* the operation that returned last, with what it returned
    newCall,    \* the last call of New: its inputs, what it did and returned
    closeCall,  \* the last call of Close: when it was called and what it did
    resolve,    \* SpecResolve: one connection given in both forms, and New on each
    caller,     \* SpecShared: the connection descriptor the caller holds
    threads,    \* SpecShared: each thread's call of New, step by step
    sessions,   \* SpecShared: the Runners that New has returned
    dials       \* SpecShared: the handles ssh.Dial and NewSession have handed out

\* the variables of one Session's life (Spec)
sessionVars == <<r, held, pc, lib, last, newCall, closeCall>>

\* the variables of concurrent construction (SpecShared)
sharedVars == <<caller, threads, sessions, dials>>

vars == <<sessionVars, resolve, sharedVars>>

----------------------------------------------------------------------------
(* Bounds of the model *)

\* the remote command's non-zero exit statuses are 1..MaxExit
MaxExit == 2
\* Close is called at most MaxCloses times on one Session
MaxCloses == 2

----------------------------------------------------------------------------
(* Values *)

\* bitSize of strconv.ParseUint(..., 10, 16): the largest uint16
MaxUint16 == 65535

\* the nil ssh.AuthMethod
NoKey == ""

\* a nil *ssh.Client / *ssh.Session
NoHandle == ""

\* type Error struct; isNil marks a nil error
NoError == [isNil |-> TRUE, script |-> "", command |-> "", exitCode |-> 0, cause |-> ""]

MkError(script, command, exitCode, cause) ==
    [isNil |-> FALSE, script |-> script, command |-> command,
     exitCode |-> exitCode, cause |-> cause]

\* type Connection struct, as new(Connection) leaves it
ZeroConnection ==
    [Type |-> "", Host |-> "", Port |-> 0, User |-> "", Password |-> "",
     PubKeyPath |-> "", PubKey |-> NoKey, Insecure |-> FALSE]

\* a Runner constructed with the exit code unset (-1) instead of Go's zero value
ZeroRunnerNoExitCode ==
    [script |-> "", command |-> "", client |-> NoHandle, session |-> NoHandle,
     running |-> FALSE, exitCode |-> -1]

\* type Runner struct, as new(Runner) leaves it
ZeroRunner ==
    [script |-> "", command |-> "", client |-> NoHandle, session |-> NoHandle,
     running |-> FALSE, exitCode |-> 0]

\* what a call into the ssh library returned: nil, an *ssh.ExitError carrying
\* the remote exit status, or any other error
LibOk == [kind |-> "ok", status |-> 0]
LibFail == [kind |-> "fail", status |-> 0]
LibExit(n) == [kind |-> "exit", status |-> n]

\* what session.Wait can return once the remote command was started
Outcomes == {LibOk, LibFail} \cup {LibExit(n) : n \in 1..MaxExit}

----------------------------------------------------------------------------
(* strconv.ParseUint, strings.ToLower, strconv.ParseBool on texts, which    *)
(* are sequences of one-character strings                                   *)

Digits == <<"0", "1", "2", "3", "4", "5", "6", "7", "8", "9">>

IsDigit(ch) == \E i \in 1..Len(Digits) : Digits[i] = ch

DigitVal(ch) == (CHOOSE i \in 1..Len(Digits) : Digits[i] = ch) - 1

RECURSIVE DecimalValue(_)
DecimalValue(s) ==
    IF s = <<>> THEN 0
    ELSE 10 * DecimalValue(SubSeq(s, 1, Len(s) - 1)) + DigitVal(s[Len(s)])

\* strconv.ParseUint(s, 10, 16): a syntax error on an empty text or a
\* character that is no digit, a range error above 65535
ParseUint(s) ==
    IF s = <<>> \/ \E i \in 1..Len(s) : ~IsDigit(s[i])
    THEN [err |-> TRUE, val |-> 0]
    ELSE IF DecimalValue(s) > MaxUint16
         THEN [err |-> TRUE, val |-> MaxUint16]
         ELSE [err |-> FALSE, val |-> DecimalValue(s)]

UpperCase == <<"A", "E", "F", "L", "R", "S", "T", "U">>
LowerCase == <<"a", "e", "f", "l", "r", "s", "t", "u">>

LowerChar(ch) ==
    IF \E i \in 1..Len(UpperCase) : UpperCase[i] = ch
    THEN LowerCase[CHOOSE i \in 1..Len(UpperCase) : UpperCase[i] = ch]
    ELSE ch

ToLower(s) == [i \in 1..Len(s) |-> LowerChar(s[i])]

\* strconv.ParseBool
ParseBool(s) ==
    IF s \in {<<"1">>, <<"t">>, <<"T">>, <<"T", "R", "U", "E">>,
              <<"t", "r", "u", "e">>, <<"T", "r", "u", "e">>}
    THEN [err |-> FALSE, val |-> TRUE]
    ELSE IF s \in {<<"0">>, <<"f">>, <<"F">>, <<"F", "A", "L", "S", "E">>,
                   <<"f", "a", "l", "s", "e">>, <<"F", "a", "l", "s", "e">>}
         THEN [err |-> FALSE, val |-> FALSE]
         ELSE [err |-> TRUE, val |-> FALSE]

----------------------------------------------------------------------------
(* The inputs of New *)

\* the state of the private-key file at a path
KeyFiles == {"missing", "unreadable", "unparsable", "ok"}

KeyNames == {"Type", "Host", "Port", "User", "Password", "Insecure", "PubKeyPath"}

Passwords == {"", "secret"}
PubKeyPaths == {"", "id_rsa"}
PortTexts == {<<"2", "2">>, <<"a", "b", "c">>, <<>>, <<"-", "1">>,
              <<"6", "5", "5", "3", "5">>, <<"6", "5", "5", "3", "6">>}
InsecureTexts == {<<"t", "r", "u", "e">>, <<"T", "R", "U", "E">>, <<"t", "R", "u", "E">>,
                  <<"f", "a", "l", "s", "e">>, <<"y", "e", "s">>, <<>>}

\* a fixed-shape record (a struct, or a pointer to one)
StructInputs ==
    [form : {"struct"}, Type : {"ssh"}, Host : {"localhost"}, Port : {22, MaxUint16},
     User : {"me"}, Password : Passwords, Insecure : BOOLEAN, PubKeyPath : PubKeyPaths]

\* a string-keyed mapping: keys holds the keys present
MapInputs ==
    [form : {"map"},
     keys : {KeyNames, KeyNames \ {"PubKeyPath"}, KeyNames \ {"Port", "Insecure"},
             KeyNames \ {"Password"}},
     Type : {"ssh"}, Host : {"localhost"}, Port : PortTexts, User : {"me"},
     Password : Passwords, Insecure : InsecureTexts, PubKeyPath : PubKeyPaths]

\* *script.Script: its name, its Error field (TRUE: non-nil) and its Command()
Scripts == [name : {"ls"}, error : BOOLEAN, command : {"powershell"}]

\* what New's collaborators answer: the key file, s.NewReader, homedir.Expand,
\* knownhosts.New, ssh.Dial and client.NewSession
Envs ==
    [keyFile : KeyFiles, reader : BOOLEAN, home : BOOLEAN, knownHosts : BOOLEAN,
     dial : BOOLEAN, session : BOOLEAN]

\* neither a struct nor a map
OtherInputs == {[form |-> "other"]}

ConnectionInputs == StructInputs \cup MapInputs \cup OtherInputs

----------------------------------------------------------------------------
(* The resolver.  A call made to a collaborator is logged as [call, ok].    *)

Call(name, ok) == [call |-> name, ok |-> ok]

\* the file at path: the empty path names no file
FileAt(path, keyFile) == IF path = "" THEN "missing" ELSE keyFile

\* func (c *Connection) loadPubKey(path string) error
loadPubKey(c, path, keyFile) ==
    IF FileAt(path, keyFile) = "missing"
    THEN [c |-> c, err |-> TRUE, log |-> <<Call("os.Stat", FALSE)>>]
    ELSE IF FileAt(path, keyFile) = "unreadable"
    THEN [c |-> c, err |-> TRUE,
          log |-> <<Call("os.Stat", TRUE), Call("ioutil.ReadFile", FALSE)>>]
    ELSE IF FileAt(path, keyFile) = "unparsable"
    THEN [c |-> c, err |-> TRUE,
          log |-> <<Call("os.Stat", TRUE), Call("ioutil.ReadFile", TRUE),
                    Call("ssh.ParsePrivateKey", FALSE)>>]
    ELSE [c |-> [c EXCEPT !.PubKey = path], err |-> FALSE,
          log |-> <<Call("os.Stat", TRUE), Call("ioutil.ReadFile", TRUE),
                    Call("ssh.ParsePrivateKey", TRUE)>>]

\* the struct branch of toConnection
fromStruct(v, keyFile) ==
    LET c == [ZeroConnection EXCEPT !.Type = v.Type, !.Host = v.Host,
                                    !.Port = v.Port % (MaxUint16 + 1),
                                    !.User = v.User, !.Password = v.Password,
                                    !.Insecure = v.Insecure,
                                    !.PubKeyPath = v.PubKeyPath]
    IN  IF c.PubKeyPath # ""
        THEN LET l == loadPubKey(c, c.PubKeyPath, keyFile)
             IN  [c |-> l.c, log |-> l.log]
        ELSE [c |-> c, log |-> <<>>]

\* mapPort without the p = 0 of the error branch: ParseUint's own value is
\* kept, which is the largest uint16 on a range error
mapPortKeepsValue(text) == ParseUint(text).val

\* case "Port" of the map branch
mapPort(text) == LET p == ParseUint(text) IN IF p.err THEN 0 ELSE p.val

\* mapInsecure without strings.ToLower
mapInsecureNoLower(text) == LET b == ParseBool(text) IN IF b.err THEN FALSE ELSE b.val

\* case "Insecure" of the map branch
mapInsecure(text) == LET b == ParseBool(ToLower(text)) IN IF b.err THEN FALSE ELSE b.val

\* fromMap leaving the loop when loadPubKey fails (return for continue): the
\* keys MapRange had not yet yielded stay unresolved, here all of them
fromMapStopsOnLoadError(v, keyFile) ==
    LET has(k) == k \in v.keys
        c == [ZeroConnection EXCEPT
                !.Type = IF has("Type") THEN v.Type ELSE @,
                !.Host = IF has("Host") THEN v.Host ELSE @,
                !.Port = IF has("Port") THEN mapPort(v.Port) ELSE @,
                !.User = IF has("User") THEN v.User ELSE @,
                !.Password = IF has("Password") THEN v.Password ELSE @,
                !.Insecure = IF has("Insecure") THEN mapInsecure(v.Insecure) ELSE @,
                !.PubKeyPath = IF has("PubKeyPath") THEN v.PubKeyPath ELSE @]
    IN  IF has("PubKeyPath")
        THEN LET l == loadPubKey(c, c.PubKeyPath, keyFile)
             IN  IF l.err
                 THEN [c |-> [ZeroConnection EXCEPT !.PubKeyPath = v.PubKeyPath],
                       log |-> l.log]
                 ELSE [c |-> l.c, log |-> l.log]
        ELSE [c |-> c, log |-> <<>>]

\* the map branch of toConnection: every key present sets its own field, so
\* the order in which MapRange yields the keys does not matter
fromMap(v, keyFile) ==
    LET has(k) == k \in v.keys
        c == [ZeroConnection EXCEPT
                !.Type = IF has("Type") THEN v.Type ELSE @,
                !.Host = IF has("Host") THEN v.Host ELSE @,
                !.Port = IF has("Port") THEN mapPort(v.Port) ELSE @,
                !.User = IF has("User") THEN v.User ELSE @,
                !.Password = IF has("Password") THEN v.Password ELSE @,
                !.Insecure = IF has("Insecure") THEN mapInsecure(v.Insecure) ELSE @,
                !.PubKeyPath = IF has("PubKeyPath") THEN v.PubKeyPath ELSE @]
    IN  IF has("PubKeyPath")
        THEN LET l == loadPubKey(c, c.PubKeyPath, keyFile)
             IN  [c |-> l.c, log |-> l.log]
        ELSE [c |-> c, log |-> <<>>]

\* func toConnection(connection interface{}) *Connection
toConnection(connection, keyFile) ==
    IF connection.form = "struct" THEN fromStruct(connection, keyFile)
    ELSE IF connection.form = "map" THEN fromMap(connection, keyFile)
    ELSE [c |-> ZeroConnection, log |-> <<>>]

----------------------------------------------------------------------------
(* New *)

\* an ssh.AuthMethod of the client configuration
PasswordAuth(password) == [method |-> "password", secret |-> password]
CredentialAuth(key) == [method |-> "credential", secret |-> key]

\* AuthMethods with the password preferred whenever one is set
AuthMethodsPasswordFirst(c) ==
    IF c.Password # ""
    THEN <<PasswordAuth(c.Password)>>
    ELSE <<CredentialAuth(c.PubKey)>>

\* the authMethods New puts in the client configuration
AuthMethods(c) ==
    IF c.Password # "" /\ c.PubKey = NoKey
    THEN <<PasswordAuth(c.Password)>>
    ELSE <<CredentialAuth(c.PubKey)>>

\* HostKeyCallback with the Insecure test dropped: the trust store is always read
HostKeyCallbackAlwaysChecks(c, env) ==
    IF ~env.home
    THEN [ok |-> FALSE, log |-> <<Call("homedir.Expand", FALSE)>>,
          cause |-> "cannot find home directory of current user"]
    ELSE IF ~env.knownHosts
    THEN [ok |-> FALSE,
          log |-> <<Call("homedir.Expand", TRUE), Call("knownhosts.New", FALSE)>>,
          cause |-> "cannot access 'known_hosts'-file"]
    ELSE [ok |-> TRUE,
          log |-> <<Call("homedir.Expand", TRUE), Call("knownhosts.New", TRUE)>>,
          cause |-> ""]

\* how New sets config.HostKeyCallback: the calls it makes, and whether it
\* can go on to dial
HostKeyCallback(c, env) ==
    IF c.Insecure
    THEN [ok |-> TRUE, log |-> <<>>, cause |-> ""]
    ELSE IF ~env.home
    THEN [ok |-> FALSE, log |-> <<Call("homedir.Expand", FALSE)>>,
          cause |-> "cannot find home directory of current user"]
    ELSE IF ~env.knownHosts
    THEN [ok |-> FALSE,
          log |-> <<Call("homedir.Expand", TRUE), Call("knownhosts.New", FALSE)>>,
          cause |-> "cannot access 'known_hosts'-file"]
    ELSE [ok |-> TRUE,
          log |-> <<Call("homedir.Expand", TRUE), Call("knownhosts.New", TRUE)>>,
          cause |-> ""]

\* the ssh client and session before any dial
NoLib ==
    [clientOpen |-> FALSE, sessionOpen |-> FALSE, stdin |-> FALSE,
     stdout |-> "", stderr |-> "", started |-> FALSE, remote |-> "none",
     signals |-> 0, sessionCloses |-> 0, clientCloses |-> 0]

\* NewFailed returning the partly built Runner beside the Error
NewFailedKeepsRunner(s, cause) ==
    [runner |-> TRUE, err |-> MkError(s.name, "", -1, cause)]

\* what New returns when it fails: no Runner, and an Error with exit code -1
\* and no command
NewFailed(s, cause) ==
    [runner |-> FALSE, err |-> MkError(s.name, "", -1, cause)]

\* what New returns at its end
NewSucceeded(s) == [runner |-> TRUE, err |-> NoError]

\* New from toConnection on, once s.Error was found nil
NewAfterParse(connection, s, env) ==
    LET tc == toConnection(connection, env.keyFile)
        r0 == [ZeroRunner EXCEPT !.script = s.name, !.command = s.command]
        log1 == <<Call("script.Error", TRUE)>> \o tc.log \o <<Call("script.NewReader", env.reader)>>
    IN  IF ~env.reader
        THEN [ret |-> NewFailed(s, "cannot create stdin reader"), r |-> r0,
              c |-> tc.c, auth |-> <<>>, log |-> log1, lib |-> NoLib]
        ELSE
        LET auth == AuthMethods(tc.c)
            hk == HostKeyCallback(tc.c, env)
            log2 == log1 \o hk.log
            log3 == log2 \o <<Call("ssh.Dial", env.dial)>>
            log4 == log3 \o <<Call("client.NewSession", env.session)>>
            r1 == [r0 EXCEPT !.client = "client"]
            r2 == [r1 EXCEPT !.session = "session"]
        IN  IF ~hk.ok
            THEN [ret |-> NewFailed(s, hk.cause), r |-> r0, c |-> tc.c,
                  auth |-> auth, log |-> log2, lib |-> NoLib]
            ELSE IF ~env.dial
            THEN [ret |-> NewFailed(s, "cannot dial host"), r |-> r0, c |-> tc.c,
                  auth |-> auth, log |-> log3, lib |-> NoLib]
            ELSE IF ~env.session
            THEN [ret |-> NewFailed(s, "cannot open session"), r |-> r1, c |-> tc.c,
                  auth |-> auth, log |-> log4,
                  lib |-> [NoLib EXCEPT !.clientOpen = TRUE]]
            ELSE [ret |-> NewSucceeded(s), r |-> r2, c |-> tc.c,
                  auth |-> auth, log |-> log4,
                  lib |-> [NoLib EXCEPT !.clientOpen = TRUE, !.sessionOpen = TRUE,
                                        !.stdin = TRUE]]

\* NewResult with s.Error tested at the end instead of first
NewResultParseCheckedLast(connection, s, env) ==
    LET n == NewAfterParse(connection, s, env)
    IN  IF s.error
        THEN [n EXCEPT !.ret = NewFailed(s, "script failed to parse"),
                       !.log = Tail(n.log) \o <<Call("script.Error", FALSE)>>]
        ELSE n

\* func New(connection interface{}, s *script.Script, arguments interface{}) (*Runner, error)
\* gives what New returns (ret), the Runner it built (r), the resolved
\* connection and the configured authentication methods, the calls it made
\* and the ssh client and session it leaves
NewResult(connection, s, env) ==
    IF s.error
    THEN [ret |-> NewFailed(s, "script failed to parse"), r |-> ZeroRunner,
          c |-> ZeroConnection, auth |-> <<>>,
          log |-> <<Call("script.Error", FALSE)>>, lib |-> NoLib]
    ELSE NewAfterParse(connection, s, env)

----------------------------------------------------------------------------
(* The ssh session, as the Runner's calls observe it *)

\* session.Start(cmd), also the first half of session.Run(cmd): it fails on a
\* session already started, on a closed channel or connection, and when the
\* request cannot be sent (transportOk = FALSE)
LibStart(lb, transportOk) ==
    IF lb.started \/ ~lb.sessionOpen \/ ~lb.clientOpen \/ ~transportOk
    THEN [res |-> LibFail, lib |-> lb]
    ELSE [res |-> LibOk, lib |-> [lb EXCEPT !.started = TRUE, !.remote = "running"]]

\* session.StdoutPipe() / session.StderrPipe(): it fails when the stream is
\* already set or the session already started
LibPipe(lb, stream) ==
    IF lb[stream] # "" \/ lb.started
    THEN [res |-> LibFail, lib |-> lb]
    ELSE [res |-> LibOk, lib |-> [lb EXCEPT ![stream] = "pipe"]]

----------------------------------------------------------------------------
(* The Runner's operations: what each does to the Runner and what it returns *)

\* StdoutPipeOutcome recording success the way Run and Wait do: r.exitCode = 0
StdoutPipeOutcomeResetsExitCode(rr, res) ==
    IF res.kind # "ok"
    THEN [r |-> [rr EXCEPT !.exitCode = -1],
          err |-> MkError(rr.script, "", -1, "cannot create stdout reader")]
    ELSE [r |-> [rr EXCEPT !.exitCode = 0], err |-> NoError]

\* func (r *Runner) StdoutPipe() (io.Reader, error), given what
\* r.session.StdoutPipe() returned
StdoutPipeOutcome(rr, res) ==
    IF res.kind # "ok"
    THEN [r |-> [rr EXCEPT !.exitCode = -1],
          err |-> MkError(rr.script, "", -1, "cannot create stdout reader")]
    ELSE [r |-> rr, err |-> NoError]

\* StderrPipeOutcome with the assignment r.exitCode = -1 left out
StderrPipeOutcomeKeepsExitCode(rr, res) ==
    IF res.kind # "ok"
    THEN [r |-> rr, err |-> MkError(rr.script, "", -1, "cannot create stderr reader")]
    ELSE [r |-> rr, err |-> NoError]

\* func (r *Runner) StderrPipe() (io.Reader, error), given what
\* r.session.StderrPipe() returned
StderrPipeOutcome(rr, res) ==
    IF res.kind # "ok"
    THEN [r |-> [rr EXCEPT !.exitCode = -1],
          err |-> MkError(rr.script, "", -1, "cannot create stderr reader")]
    ELSE [r |-> rr, err |-> NoError]

\* RunOutcome without the errors.As branch: every failure reports -1
RunOutcomeNoExitStatus(rr, res) ==
    IF res.kind # "ok"
    THEN [r |-> [rr EXCEPT !.exitCode = -1],
          err |-> MkError(rr.script, rr.command, -1, "Run: cannot execute runner")]
    ELSE [r |-> [rr EXCEPT !.exitCode = 0], err |-> NoError]

\* func (r *Runner) Run() error, given what r.session.Run(r.command) returned
RunOutcome(rr, res) ==
    IF res.kind # "ok"
    THEN IF res.kind = "exit"
         THEN [r |-> [rr EXCEPT !.exitCode = res.status],
               err |-> MkError(rr.script, rr.command, res.status, "Run: runner failed")]
         ELSE [r |-> [rr EXCEPT !.exitCode = -1],
               err |-> MkError(rr.script, rr.command, -1, "Run: cannot execute runner")]
    ELSE [r |-> [rr EXCEPT !.exitCode = 0], err |-> NoError]

\* func (r *Runner) Start() error, given what r.session.Start(r.command) returned
StartOutcome(rr, res) ==
    IF res.kind # "ok"
    THEN [r |-> [rr EXCEPT !.exitCode = -1],
          err |-> MkError(rr.script, rr.command, -1, "Start: cannot start runner")]
    ELSE [r |-> [rr EXCEPT !.running = TRUE], err |-> NoError]

\* WaitOutcome with the exit status extracted after the Error was built: the
\* Runner gets the status, the returned Error still carries the old exit code
WaitOutcomeStaleError(rr, res) ==
    LET r1 == [rr EXCEPT !.running = FALSE]
    IN  IF res.kind # "ok"
        THEN LET code == IF res.kind = "exit" THEN res.status ELSE -1
             IN  [r |-> [r1 EXCEPT !.exitCode = code],
                  err |-> MkError(r1.script, r1.command, r1.exitCode, "Wait: runner failed")]
        ELSE [r |-> [r1 EXCEPT !.exitCode = 0], err |-> NoError]

\* func (r *Runner) Wait() error, given what r.session.Wait() returned
WaitOutcome(rr, res) ==
    LET r1 == [rr EXCEPT !.running = FALSE]
    IN  IF res.kind # "ok"
        THEN LET code == IF res.kind = "exit" THEN res.status ELSE -1
             IN  [r |-> [r1 EXCEPT !.exitCode = code],
                  err |-> MkError(r1.script, r1.command, code, "Wait: runner failed")]
        ELSE [r |-> [r1 EXCEPT !.exitCode = 0], err |-> NoError]

\* CloseOutcome returning the error of r.session.Close(), which is non-nil on
\* a session already closed
CloseOutcomeReturnsCloseError(rr, lb) ==
    LET sig == rr.running
        lb1 == IF sig /\ rr.session # NoHandle
               THEN [lb EXCEPT !.signals = @ + 1] ELSE lb
        lb2 == IF rr.session # NoHandle
               THEN [lb1 EXCEPT !.sessionCloses = @ + 1, !.sessionOpen = FALSE] ELSE lb1
        lb3 == IF rr.client # NoHandle
               THEN [lb2 EXCEPT !.clientCloses = @ + 1, !.clientOpen = FALSE,
                                !.sessionOpen = FALSE]
               ELSE lb2
    IN  [log |-> (IF sig THEN <<"session.Signal">> ELSE <<>>)
                 \o <<"session.Close", "client.Close">>,
         lib |-> lb3, r |-> rr,
         err |-> IF lb.sessionCloses > 0
                 THEN MkError(rr.script, rr.command, rr.exitCode, "session already closed")
                 ELSE NoError,
         panic |-> FALSE]

\* CloseOutcome treating a failed r.session.Close() the way the other
\* operations treat a failure: the exit code becomes -1
CloseOutcomeRecordsCloseError(rr, lb) ==
    LET sig == rr.running
        lb1 == IF sig THEN [lb EXCEPT !.signals = @ + 1] ELSE lb
        lb3 == [lb1 EXCEPT !.sessionCloses = @ + 1, !.clientCloses = @ + 1,
                           !.sessionOpen = FALSE, !.clientOpen = FALSE]
    IN  [log |-> (IF sig THEN <<"session.Signal">> ELSE <<>>)
                 \o <<"session.Close", "client.Close">>,
         lib |-> lb3,
         r |-> IF lb.sessionCloses > 0 THEN [rr EXCEPT !.exitCode = -1] ELSE rr,
         err |-> NoError, panic |-> FALSE]

\* func (r *Runner) Close() error: the calls it makes in order, the session
\* and client it leaves, what it returns and whether it panics (a call through
\* a nil r.session); it assigns no field of the Runner
CloseOutcome(rr, lb) ==
    LET sig == rr.running
        lb1 == IF sig /\ rr.session # NoHandle
               THEN [lb EXCEPT !.signals = @ + 1] ELSE lb
        lb2 == IF rr.session # NoHandle
               THEN [lb1 EXCEPT !.sessionCloses = @ + 1, !.sessionOpen = FALSE] ELSE lb1
        lb3 == IF rr.client # NoHandle
               THEN [lb2 EXCEPT !.clientCloses = @ + 1, !.clientOpen = FALSE,
                                !.sessionOpen = FALSE]
               ELSE lb2
    IN  IF sig /\ rr.session = NoHandle
        THEN [log |-> <<>>, lib |-> lb, r |-> rr, err |-> NoError, panic |-> TRUE]
        ELSE [log |-> (IF sig THEN <<"session.Signal">> ELSE <<>>)
                      \o (IF rr.session # NoHandle THEN <<"session.Close">> ELSE <<>>)
                      \o (IF rr.client # NoHandle THEN <<"client.Close">> ELSE <<>>),
              lib |-> lb3, r |-> rr, err |-> NoError, panic |-> FALSE]

\* func (r *Runner) ExitCode() int
ExitCode == r.exitCode

----------------------------------------------------------------------------
(* The state machine *)

Returned(op, res, err, ran) ==
    [op |-> op, res |-> res, err |-> err, ran |-> ran, panic |-> FALSE]

NoNewCall ==
    [called |-> FALSE, ret |-> NewSucceeded([name |-> ""]), r |-> ZeroRunner,
     c |-> ZeroConnection, auth |-> <<>>, log |-> <<>>]

NoCloseCall == [called |-> FALSE, remoteRunning |-> FALSE, pc |-> "idle", log |-> <<>>]

\* the variables of the other specifications, which Spec leaves alone
NoResolve == [called |-> FALSE]
NoCaller == [held |-> FALSE]
NoThreads == <<>>

Init ==
    /\ r = ZeroRunner
    /\ held = FALSE
    /\ pc = "idle"
    /\ lib = NoLib
    /\ last = Returned("none", LibOk, NoError, FALSE)
    /\ newCall = NoNewCall
    /\ closeCall = NoCloseCall
    /\ resolve = NoResolve
    /\ caller = NoCaller
    /\ threads = NoThreads
    /\ sessions = <<>>
    /\ dials = 0

\* a call of New
New(connection, s, env) ==
    /\ LET n == NewResult(connection, s, env)
       IN  /\ newCall' = [called |-> TRUE, ret |-> n.ret, r |-> n.r, c |-> n.c,
                          auth |-> n.auth, log |-> n.log]
           /\ r' = n.r
           /\ held' = n.ret.runner
           /\ lib' = n.lib
           /\ last' = Returned("New", LibOk, n.ret.err, FALSE)
    /\ UNCHANGED <<pc, closeCall, resolve, sharedVars>>

\* func (r *Runner) SetStdoutWriter(stdout io.Writer)
SetStdoutWriter ==
    /\ held /\ pc = "idle"
    /\ lib' = [lib EXCEPT !.stdout = "writer"]
    /\ last' = Returned("SetStdoutWriter", LibOk, NoError, FALSE)
    /\ UNCHANGED <<r, held, pc, newCall, closeCall, resolve, sharedVars>>

\* func (r *Runner) SetStderrWriter(stderr io.Writer)
SetStderrWriter ==
    /\ held /\ pc = "idle"
    /\ lib' = [lib EXCEPT !.stderr = "writer"]
    /\ last' = Returned("SetStderrWriter", LibOk, NoError, FALSE)
    /\ UNCHANGED <<r, held, pc, newCall, closeCall, resolve, sharedVars>>

StdoutPipe ==
    /\ held /\ pc = "idle"
    /\ LET l == LibPipe(lib, "stdout")
           o == StdoutPipeOutcome(r, l.res)
       IN  /\ lib' = l.lib
           /\ r' = o.r
           /\ last' = Returned("StdoutPipe", l.res, o.err, FALSE)
    /\ UNCHANGED <<held, pc, newCall, closeCall, resolve, sharedVars>>

StderrPipe ==
    /\ held /\ pc = "idle"
    /\ LET l == LibPipe(lib, "stderr")
           o == StderrPipeOutcome(r, l.res)
       IN  /\ lib' = l.lib
           /\ r' = o.r
           /\ last' = Returned("StderrPipe", l.res, o.err, FALSE)
    /\ UNCHANGED <<held, pc, newCall, closeCall, resolve, sharedVars>>

Start(transportOk) ==
    /\ held /\ pc = "idle"
    /\ LET l == LibStart(lib, transportOk)
           o == StartOutcome(r, l.res)
       IN  /\ lib' = l.lib
           /\ r' = o.r
           /\ last' = Returned("Start", l.res, o.err, FALSE)
    /\ UNCHANGED <<held, pc, newCall, closeCall, resolve, sharedVars>>

\* Run is called: session.Run starts the remote command and blocks, or fails
\* at once and Run returns
RunCall(transportOk) ==
    /\ held /\ pc = "idle"
    /\ LET l == LibStart(lib, transportOk)
           o == RunOutcome(r, l.res)
       IN  /\ lib' = l.lib
           /\ IF l.res.kind = "ok"
              THEN /\ pc' = "run"
                   /\ UNCHANGED <<r, last>>
              ELSE /\ pc' = "idle"
                   /\ r' = o.r
                   /\ last' = Returned("Run", l.res, o.err, FALSE)
    /\ UNCHANGED <<held, newCall, closeCall, resolve, sharedVars>>

\* the remote command has terminated, or the connection has: session.Run
\* returns res and Run returns
RunReturn(res) ==
    /\ pc = "run" /\ lib.remote = "running"
    /\ LET o == RunOutcome(r, res)
       IN  /\ r' = o.r
           /\ last' = Returned("Run", res, o.err, TRUE)
    /\ lib' = [lib EXCEPT !.remote = "reaped"]
    /\ pc' = "idle"
    /\ UNCHANGED <<held, newCall, closeCall, resolve, sharedVars>>

\* Wait is called: session.Wait fails at once on a session not started, and
\* blocks otherwise
WaitCall ==
    /\ held /\ pc = "idle"
    /\ IF ~lib.started
       THEN LET o == WaitOutcome(r, LibFail)
            IN  /\ r' = o.r
                /\ last' = Returned("Wait", LibFail, o.err, FALSE)
                /\ pc' = "idle"
       ELSE /\ pc' = "wait"
            /\ UNCHANGED <<r, last>>
    /\ UNCHANGED <<held, lib, newCall, closeCall, resolve, sharedVars>>

\* session.Wait returns res and Wait returns; a second Wait on a command
\* already waited for blocks for ever
WaitReturn(res) ==
    /\ pc = "wait" /\ lib.remote = "running"
    /\ LET o == WaitOutcome(r, res)
       IN  /\ r' = o.r
           /\ last' = Returned("Wait", res, o.err, TRUE)
    /\ lib' = [lib EXCEPT !.remote = "reaped"]
    /\ pc' = "idle"
    /\ UNCHANGED <<held, newCall, closeCall, resolve, sharedVars>>

\* Close is called in any state of the Session, also while Run or Wait blocks
Close ==
    /\ held
    /\ lib.sessionCloses < MaxCloses
    /\ LET o == CloseOutcome(r, lib)
       IN  /\ lib' = o.lib
           /\ r' = o.r
           /\ last' = [Returned("Close", LibOk, o.err, FALSE) EXCEPT !.panic = o.panic]
           /\ closeCall' = [called |-> TRUE, remoteRunning |-> lib.remote = "running",
                            pc |-> pc, log |-> o.log]
    /\ UNCHANGED <<held, pc, newCall, resolve, sharedVars>>

\* the caller's one call of New, with any connection, script and environment
NewOnce ==
    /\ ~newCall.called
    /\ \E connection \in ConnectionInputs, s \in Scripts, env \in Envs :
          New(connection, s, env)

Next ==
    \/ NewOnce
    \/ SetStdoutWriter
    \/ SetStderrWriter
    \/ StdoutPipe
    \/ StderrPipe
    \/ \E transportOk \in BOOLEAN : Start(transportOk)
    \/ \E transportOk \in BOOLEAN : RunCall(transportOk)
    \/ \E res \in Outcomes : RunReturn(res)
    \/ WaitCall
    \/ \E res \in Outcomes : WaitReturn(res)
    \/ Close

Spec == Init /\ [][Next]_vars

----------------------------------------------------------------------------
(* SpecResolve: one connection, given as a struct and as a map of texts, and *)
(* New called on each form                                                   *)

\* strconv.FormatUint(n, 10): how a caller writes a port as text
RECURSIVE FormatUint(_)
FormatUint(n) ==
    IF n < 10 THEN <<Digits[n + 1]>>
    ELSE FormatUint(n \div 10) \o <<Digits[(n % 10) + 1]>>

\* strconv.FormatBool(b)
FormatBool(b) == IF b THEN <<"t", "r", "u", "e">> ELSE <<"f", "a", "l", "s", "e">>

UpperChar(ch) ==
    IF \E i \in 1..Len(LowerCase) : LowerCase[i] = ch
    THEN UpperCase[CHOOSE i \in 1..Len(LowerCase) : LowerCase[i] = ch]
    ELSE ch

\* text x is the lower-case text s in some letter case
IsCaseVariant(x, s) ==
    /\ Len(x) = Len(s)
    /\ \A i \in 1..Len(s) : x[i] \in {s[i], UpperChar(s[i])}

\* the lower-case text s in every letter case
CaseVariants(s) ==
    {[i \in 1..Len(s) |-> IF i \in up THEN UpperChar(s[i]) ELSE s[i]] :
        up \in SUBSET (1..Len(s))}

ResolvePorts == {0, 22, MaxUint16}

ResolvePortTexts ==
    {FormatUint(n) : n \in ResolvePorts}
    \cup {<<"0", "2", "2">>, <<"a", "b", "c">>, <<>>, <<"-", "1">>, <<"+", "2", "2">>,
          <<"6", "5", "5", "3", "6">>, <<"9", "9", "9", "9", "9", "9">>}

ResolveInsecureTexts ==
    CaseVariants(FormatBool(TRUE)) \cup CaseVariants(FormatBool(FALSE))
    \cup {<<"1">>, <<"0">>, <<"t">>, <<"F">>, <<"y", "e", "s">>, <<"t", "r", "u">>, <<>>}

ResolveStructs ==
    [form : {"struct"}, Type : {"ssh"}, Host : {"localhost"}, Port : ResolvePorts,
     User : {"me"}, Password : Passwords, Insecure : BOOLEAN, PubKeyPath : PubKeyPaths]

ResolveKeys ==
    {KeyNames, KeyNames \ {"PubKeyPath"}, KeyNames \ {"Port", "Insecure", "Password"}}

\* a script that parsed, and collaborators that all succeed but for the key file
GoodScript == [name |-> "ls", error |-> FALSE, command |-> "powershell"]
GoodEnv(keyFile) ==
    [keyFile |-> keyFile, reader |-> TRUE, home |-> TRUE, knownHosts |-> TRUE,
     dial |-> TRUE, session |-> TRUE]

\* the map that gives struct v's fields under the keys present, with the port
\* and the insecure flag as the texts given
AsMap(v, keys, portText, insecureText) ==
    [form |-> "map", keys |-> keys, Type |-> v.Type, Host |-> v.Host,
     Port |-> portText, User |-> v.User, Password |-> v.Password,
     Insecure |-> insecureText, PubKeyPath |-> v.PubKeyPath]

\* New is called on the struct and on the map
Resolve(v, m, keyFile) ==
    /\ resolve' = [called |-> TRUE, v |-> v, m |-> m, keyFile |-> keyFile,
                   fromStruct |-> NewResult(v, GoodScript, GoodEnv(keyFile)),
                   fromMap |-> NewResult(m, GoodScript, GoodEnv(keyFile))]
    /\ UNCHANGED <<sessionVars, sharedVars>>

ResolveOnce ==
    /\ ~resolve.called
    /\ \E v \in ResolveStructs, keys \in ResolveKeys, portText \in ResolvePortTexts,
          insecureText \in ResolveInsecureTexts, keyFile \in KeyFiles :
          Resolve(v, AsMap(v, keys, portText, insecureText), keyFile)

NextResolve == ResolveOnce

SpecResolve == Init /\ [][NextResolve]_vars

----------------------------------------------------------------------------
(* SpecShared: one descriptor held by the caller, and threads that each call *)
(* New on it; a call is three steps, so that calls interleave                *)

Threads == {"t1", "t2"}

\* New calls made on the shared descriptor, over all threads
MaxNews == 3

SharedKeyFiles == {"ok", "unparsable"}

SharedStructs ==
    [form : {"struct"}, Type : {"ssh"}, Host : {"localhost"}, Port : {22},
     User : {"me"}, Password : Passwords, Insecure : {TRUE}, PubKeyPath : PubKeyPaths]

SharedDescriptors ==
    SharedStructs
    \cup {AsMap(v, KeyNames, FormatUint(v.Port), <<"T", "r", "u", "e">>) : v \in SharedStructs}

\* a thread that is not inside New
IdleThread == [pc |-> "idle", c |-> ZeroConnection, handles |-> <<>>]

\* the caller builds a descriptor and hands it to the threads
Share(connection, keyFile) ==
    /\ caller' = [held |-> TRUE, orig |-> connection, now |-> connection,
                  keyFile |-> keyFile, news |-> 0]
    /\ threads' = [t \in Threads |-> IdleThread]
    /\ UNCHANGED <<sessionVars, resolve, sessions, dials>>

ShareOnce ==
    /\ ~caller.held
    /\ \E connection \in SharedDescriptors, keyFile \in SharedKeyFiles :
          Share(connection, keyFile)

\* toConnection writing back what it could not load: the path is cleared in the
\* value it was given
CallerAfterToConnectionClearsPath(connection, keyFile) ==
    IF toConnection(connection, keyFile).c.PubKey = NoKey
    THEN [connection EXCEPT !.PubKeyPath = ""]
    ELSE connection

\* the value New was given, after toConnection: it is read through reflection
\* (FieldByName, MapRange) and every assignment, loadPubKey's included, is to
\* the Connection that new(Connection) allocated for this call
CallerAfterToConnection(connection, keyFile) == connection

\* the Runner's handles: the client ssh.Dial returned to this call and the
\* session opened on it
SessionOf(t, c, client, session) ==
    [thread |-> t, c |-> c, client |-> client, session |-> session]

\* New up to the dial: the parse check, toConnection, NewReader, the
\* authentication method and the host key callback; ok is whether none of
\* the error returns was taken
NewResolves(t, ok) ==
    /\ caller.held /\ caller.news < MaxNews
    /\ threads[t].pc = "idle"
    /\ caller' = [caller EXCEPT
                    !.now = CallerAfterToConnection(caller.now, caller.keyFile),
                    !.news = @ + 1]
    /\ threads' = [threads EXCEPT ![t] =
                    IF ok
                    THEN [pc |-> "resolved",
                          c |-> toConnection(caller.now, caller.keyFile).c,
                          handles |-> <<>>]
                    ELSE IdleThread]
    /\ UNCHANGED <<sessionVars, resolve, sessions, dials>>

\* ssh.Dial: a new client on success, the error return otherwise
NewDials(t, ok) ==
    /\ caller.held
    /\ threads[t].pc = "resolved"
    /\ IF ok
       THEN /\ dials' = dials + 1
            /\ threads' = [threads EXCEPT ![t].pc = "dialed", ![t].handles = <<dials + 1>>]
       ELSE /\ dials' = dials
            /\ threads' = [threads EXCEPT ![t] = IdleThread]
    /\ UNCHANGED <<sessionVars, resolve, caller, sessions>>

\* client.NewSession: a new session on success and New returns the Runner,
\* the error return otherwise
NewOpensSession(t, ok) ==
    /\ caller.held
    /\ threads[t].pc = "dialed"
    /\ IF ok
       THEN /\ dials' = dials + 1
            /\ sessions' = Append(sessions,
                  SessionOf(t, threads[t].c, threads[t].handles[1], dials + 1))
       ELSE /\ dials' = dials
            /\ sessions' = sessions
    /\ threads' = [threads EXCEPT ![t] = IdleThread]
    /\ UNCHANGED <<sessionVars, resolve, caller>>

NextShared ==
    \/ ShareOnce
    \/ \E t \in Threads, ok \in BOOLEAN : NewResolves(t, ok)
    \/ \E t \in Threads, ok \in BOOLEAN : NewDials(t, ok)
    \/ \E t \in Threads, ok \in BOOLEAN : NewOpensSession(t, ok)

SpecShared == Init /\ [][NextShared]_vars

----------------------------------------------------------------------------
(* Properties *)

Failed(call) == \E i \in 1..Len(newCall.log) : newCall.log[i] = Call(call, FALSE)
Succeeded(call) == \E i \in 1..Len(newCall.log) : newCall.log[i] = Call(call, TRUE)
Made(call) == Failed(call) \/ Succeeded(call)

\* call a comes before call b in New's log
Precedes(a, b) ==
    \E i, j \in 1..Len(newCall.log) :
        i < j /\ newCall.log[i].call = a /\ newCall.log[j].call = b

\* the steps of New whose failure fails New
FatalCalls ==
    {"script.Error", "script.NewReader", "homedir.Expand", "knownhosts.New",
     "ssh.Dial", "client.NewSession"}

\* C1: when Run returns after a remote command that exited with status 0, it
\* returns nil and ExitCode() is 0; after one that exited with status N # 0,
\* it returns an Error whose exit code is N and ExitCode() is N.
C1_RunReportsExitStatus ==
    last.op = "Run" =>
        /\ last.res.kind = "ok" => last.err.isNil /\ ExitCode = 0
        /\ last.res.kind = "exit" =>
              /\ ~last.err.isNil
              /\ last.err.exitCode = last.res.status
              /\ ExitCode = last.res.status

C1_Witness ==
    /\ last.op = "Run" /\ last.ran
    /\ last.res = LibExit(MaxExit)
    /\ ExitCode = MaxExit /\ last.err.exitCode = MaxExit

\* C2: when Run, Start, Wait, StdoutPipe or StderrPipe returns an Error whose
\* cause is not an ssh.ExitError, the Error's exit code and ExitCode() are both
\* -1; an exit code other than -1 is reported only when the cause is an
\* ssh.ExitError carrying that status.
C2_NoStatusIsMinusOne ==
    (last.op \in {"Run", "Start", "Wait", "StdoutPipe", "StderrPipe"} /\ ~last.err.isNil) =>
        /\ last.res.kind # "exit" => last.err.exitCode = -1 /\ ExitCode = -1
        /\ last.err.exitCode # -1 =>
              /\ last.res.kind = "exit"
              /\ last.res.status = last.err.exitCode
              /\ ExitCode = last.err.exitCode

\* a pipe request that fails after the command has run and been waited for
C2_Witness ==
    /\ last.op = "StderrPipe" /\ ~last.err.isNil
    /\ last.res = LibFail
    /\ lib.remote = "reaped"
    /\ ExitCode = -1

\* the terminal state of a Session: ExitCode(), whether the returned error is
\* nil, and the exit code in the returned Error
Terminal(rr, err) == <<rr.exitCode, err.isNil, err.exitCode>>

\* C3: when Wait returns after a successful Start, with the remote command
\* ending in any way (exit 0, exit N, no exit status), the Session is in the
\* terminal state Run reaches on the Session as constructed when the command
\* ends the same way.
C3_StartWaitEqualsRun ==
    (last.op = "Wait" /\ last.ran) =>
        Terminal(r, last.err) =
            Terminal(RunOutcome(newCall.r, last.res).r, RunOutcome(newCall.r, last.res).err)

C3_Witness ==
    /\ last.op = "Wait" /\ last.ran
    /\ last.res = LibExit(MaxExit)
    /\ ~r.running
    /\ ExitCode = MaxExit

\* C4: when a step of New fails, New returns no Runner and an Error with exit
\* code -1; it returns a Runner only after a successful dial and a successful
\* session open, with the client, the session and the session's stdin set.
C4_NewFailsWhole ==
    newCall.called =>
        /\ (\E call \in FatalCalls : Failed(call)) =>
              /\ ~newCall.ret.runner /\ ~held
              /\ ~newCall.ret.err.isNil
              /\ newCall.ret.err.exitCode = -1
        /\ (newCall.ret.runner \/ held) =>
              /\ newCall.ret.err.isNil
              /\ Succeeded("ssh.Dial") /\ Succeeded("client.NewSession")
              /\ r.client # NoHandle /\ r.session # NoHandle
              /\ lib.stdin

\* the dial succeeded and the session open failed
C4_Witness ==
    /\ newCall.called
    /\ Succeeded("ssh.Dial") /\ Failed("client.NewSession")
    /\ ~held /\ newCall.ret.err.exitCode = -1

\* the Session is Running in the sense of the state machine: the remote
\* command was started by Start or by a Run in flight and has not been waited for
SessionRunning == closeCall.remoteRunning

\* C5: a Close called while the Session is Running (Start succeeded and Wait
\* has not returned, or Run is in flight) signals the remote command, then
\* closes the session, then closes the client.
C5_CloseSignalsRunning ==
    (closeCall.called /\ SessionRunning) =>
        closeCall.log = <<"session.Signal", "session.Close", "client.Close">>

\* C6: every Close on a constructed Session returns nil and does not panic,
\* whatever happened before, a Close just before included.
C6_CloseReturnsNil ==
    last.op = "Close" => last.err.isNil /\ ~last.panic

\* a second Close, while the remote command runs
C6_Witness ==
    /\ last.op = "Close"
    /\ lib.sessionCloses = 2
    /\ closeCall.remoteRunning
    /\ last.err.isNil

\* C7: at most one close is issued to the session and at most one to the client.
C7_ReleasedOnce ==
    lib.sessionCloses <= 1 /\ lib.clientCloses <= 1

\* C8: once Close has returned, an operation called on the Session changes
\* neither the Runner (running flag, exit code) nor whether the remote command
\* was started.
C8_ClosedIsTerminal ==
    [][(closeCall.called /\ pc = "idle") =>
          (r' = r /\ lib'.started = lib.started /\ lib'.remote = lib.remote)]_vars

\* C9: when New dials, the client configuration holds one authentication
\* method: the password if and only if the password is non-empty and no
\* credential is loaded, the loaded credential (nil or not) otherwise; with a
\* key that loads and a password, it is the key.
C9_OneAuthMethod ==
    (newCall.called /\ Made("ssh.Dial")) =>
        /\ Len(newCall.auth) = 1
        /\ newCall.auth[1].method = "password" <=>
              (newCall.c.Password # "" /\ newCall.c.PubKey = NoKey)
        /\ newCall.auth[1].method = "password" =>
              newCall.auth[1].secret = newCall.c.Password
        /\ newCall.auth[1].method # "password" =>
              newCall.auth[1] = CredentialAuth(newCall.c.PubKey)
        /\ (newCall.c.Password # "" /\ Succeeded("ssh.ParsePrivateKey")) =>
              newCall.auth = <<CredentialAuth(newCall.c.PubKeyPath)>>

\* a key that loads and a password
C9_Witness ==
    /\ newCall.called /\ Made("ssh.Dial")
    /\ newCall.c.Password # "" /\ Succeeded("ssh.ParsePrivateKey")
    /\ newCall.auth = <<CredentialAuth("id_rsa")>>

\* C10: with Insecure set, New calls neither homedir.Expand nor knownhosts.New
\* and does not fail on the trust store; without it, both are called before
\* the dial, and when one fails New fails without dialing.
C10_InsecureSkipsTrustStore ==
    newCall.called =>
        /\ newCall.c.Insecure =>
              /\ ~Made("homedir.Expand") /\ ~Made("knownhosts.New")
              /\ newCall.ret.err.cause \notin
                    {"cannot find home directory of current user",
                     "cannot access 'known_hosts'-file"}
        /\ (~newCall.c.Insecure /\ Made("ssh.Dial")) =>
              /\ Succeeded("homedir.Expand") /\ Succeeded("knownhosts.New")
              /\ Precedes("homedir.Expand", "ssh.Dial")
              /\ Precedes("knownhosts.New", "ssh.Dial")
        /\ (Failed("homedir.Expand") \/ Failed("knownhosts.New")) =>
              /\ ~Made("ssh.Dial")
              /\ ~newCall.ret.runner /\ ~newCall.ret.err.isNil

\* Insecure set: New dials and succeeds without a trust-store call
C10_Witness ==
    /\ newCall.called /\ newCall.c.Insecure
    /\ Succeeded("ssh.Dial") /\ held
    /\ ~Made("homedir.Expand") /\ ~Made("knownhosts.New")

\* C11: when the script's Error is non-nil, New fails at once: it makes no
\* other call (no key file read, no NewReader, no trust-store access, no dial,
\* no session open), resolves no connection and leaves no client or session.
C11_ParseErrorFirst ==
    (newCall.called /\ Failed("script.Error")) =>
        /\ newCall.log = <<Call("script.Error", FALSE)>>
        /\ newCall.c = ZeroConnection
        /\ newCall.auth = <<>>
        /\ lib = NoLib
        /\ ~held /\ ~newCall.ret.runner
        /\ newCall.ret.err = MkError("ls", "", -1, "script failed to parse")

C11_Witness ==
    /\ newCall.called /\ Failed("script.Error")
    /\ last.op = "New" /\ ~last.err.isNil
    /\ ~held

\* C12: an Error returned by New carries an empty command; an Error returned
\* by Run, Start, Wait, StdoutPipe or StderrPipe carries the Session's command
\* and script.
C12_ErrorCarriesCommand ==
    /\ (last.op = "New" /\ ~last.err.isNil) => last.err.command = ""
    /\ (last.op \in {"Run", "Start", "Wait", "StdoutPipe", "StderrPipe"}
        /\ ~last.err.isNil) =>
          /\ last.err.command = r.command
          /\ last.err.script = r.script

\* C13: a step of Close leaves ExitCode() as it was.
C13_CloseKeepsExitCode ==
    [][Close => ExitCode' = ExitCode]_vars

\* a second Close, whose session and client closes fail, after a Run that
\* reported the remote exit status
C13_Witness ==
    /\ last.op = "Close"
    /\ lib.sessionCloses = 2
    /\ lib.remote = "reaped"
    /\ ExitCode = MaxExit

\* C18: when New has returned an error, the client it dialed is not open.
C18_NoClientLeftOpen ==
    (newCall.called /\ ~newCall.ret.err.isNil) => ~lib.clientOpen

\* C19 as claimed: once Run or Wait has returned after the remote command
\* ran, a step of Close, SetStdoutWriter, SetStderrWriter, StdoutPipe or
\* StderrPipe leaves ExitCode() as it was, also when the step fails.
C19_ExitCodeStable ==
    [][(lib.remote = "reaped"
        /\ (Close \/ SetStdoutWriter \/ SetStderrWriter \/ StdoutPipe \/ StderrPipe))
       => ExitCode' = ExitCode]_vars

\* C19 as amended: in every state, and so once Run or Wait has returned, a
\* step of Close, SetStdoutWriter or SetStderrWriter leaves ExitCode() as it
\* was; a step of StdoutPipe or StderrPipe leaves it as it was when it returns
\* nil and sets it to -1 when it returns an Error.
C19_ExitCodeStableUnlessPipeFails ==
    [][/\ (Close \/ SetStdoutWriter \/ SetStderrWriter) => ExitCode' = ExitCode
       /\ (StdoutPipe \/ StderrPipe) =>
             IF last'.err.isNil THEN ExitCode' = ExitCode ELSE ExitCode' = -1]_vars

\* a pipe request that failed after Run or Wait returned
C19_Witness ==
    /\ last.op \in {"StdoutPipe", "StderrPipe"} /\ ~last.err.isNil
    /\ lib.remote = "reaped"
    /\ ExitCode = -1

\* C20 as claimed: a Session reports exit code 0 only after a Run or Wait
\* returned for a remote command that ran; a Session fresh from New, or
\* started and not yet waited for, does not report 0.
C20_ZeroOnlyAfterCompletion ==
    (held /\ ExitCode = 0) => lib.remote = "reaped"

\* C20 as amended: a Session reports 0 when New returns it, and from any other
\* value ExitCode() becomes 0 only at the return of a Run or Wait whose remote
\* command ran and exited with status 0.
C20_ZeroFromNewOrFromSuccess ==
    /\ []((held /\ last.op = "New") => ExitCode = 0)
    /\ [][(ExitCode # 0 /\ ExitCode' = 0) =>
             (last'.op \in {"Run", "Wait"} /\ last'.ran /\ last'.res = LibOk
              /\ last'.err.isNil)]_vars

\* started and not yet waited for, and the Session reports 0
C20_Witness ==
    /\ held /\ last.op = "Start" /\ last.err.isNil
    /\ lib.remote = "running" /\ r.running
    /\ ExitCode = 0

\* call was made in log
MadeIn(log, call) == \E i \in 1..Len(log) : log[i].call = call

\* map m gives the same field values as struct v: each key present holds the
\* struct's value, the port as its decimal text and the insecure flag as true
\* or false in any letter case; a key absent stands for the zero value
Equivalent(v, m) ==
    /\ {"Type", "Host", "User"} \subseteq m.keys
    /\ m.Type = v.Type /\ m.Host = v.Host /\ m.User = v.User
    /\ IF "Port" \in m.keys THEN m.Port = FormatUint(v.Port) ELSE v.Port = 0
    /\ IF "Insecure" \in m.keys
       THEN IsCaseVariant(m.Insecure, FormatBool(v.Insecure)) ELSE ~v.Insecure
    /\ IF "Password" \in m.keys THEN m.Password = v.Password ELSE v.Password = ""
    /\ IF "PubKeyPath" \in m.keys THEN m.PubKeyPath = v.PubKeyPath ELSE v.PubKeyPath = ""

\* C14: a struct and a map with equivalent field values resolve to the same
\* Connection: same Type, Host, Port, User, Password, PubKeyPath, Insecure and
\* PubKey (loaded or not).
C14_RecordAndMappingAgree ==
    (resolve.called /\ Equivalent(resolve.v, resolve.m)) =>
        resolve.fromMap.c = resolve.fromStruct.c

\* all keys present, the largest port, the flag in mixed case, a key that loads
C14_Witness ==
    /\ resolve.called /\ Equivalent(resolve.v, resolve.m)
    /\ resolve.m.keys = KeyNames
    /\ resolve.m.Port = <<"6", "5", "5", "3", "5">>
    /\ resolve.m.Insecure = <<"t", "R", "u", "E">>
    /\ resolve.fromMap.c.Port = MaxUint16 /\ resolve.fromMap.c.Insecure
    /\ resolve.fromMap.c.PubKey = "id_rsa"

\* text s is a decimal number that fits 16 bits
IsPortText(s) ==
    /\ s # <<>>
    /\ \A i \in 1..Len(s) : IsDigit(s[i])
    /\ DecimalValue(s) <= MaxUint16

\* text s is one of the texts for a boolean, in some letter case
IsBoolText(s) ==
    \E b \in {<<"1">>, <<"0">>, <<"t">>, <<"f">>, FormatBool(TRUE), FormatBool(FALSE)} :
        IsCaseVariant(s, b)

\* the fields of map m other than Port, Insecure and PubKey are resolved in c
RestResolved(m, c) ==
    /\ c.Type = m.Type /\ c.Host = m.Host /\ c.User = m.User
    /\ c.Password = (IF "Password" \in m.keys THEN m.Password ELSE "")
    /\ c.PubKeyPath = (IF "PubKeyPath" \in m.keys THEN m.PubKeyPath ELSE "")

\* C15: in a map, a Port text that is no 16-bit unsigned decimal resolves to
\* port 0 and an Insecure text that is no boolean resolves to false; either
\* way the other fields are resolved and New does not fail.
C15_MalformedTextsDefault ==
    resolve.called =>
        /\ ("Port" \in resolve.m.keys /\ ~IsPortText(resolve.m.Port)) =>
              /\ resolve.fromMap.c.Port = 0
              /\ RestResolved(resolve.m, resolve.fromMap.c)
              /\ resolve.fromMap.ret.runner
        /\ ("Insecure" \in resolve.m.keys /\ ~IsBoolText(resolve.m.Insecure)) =>
              /\ resolve.fromMap.c.Insecure = FALSE
              /\ RestResolved(resolve.m, resolve.fromMap.c)
              /\ resolve.fromMap.ret.runner

\* a port above 65535 and a flag that is no boolean
C15_Witness ==
    /\ resolve.called
    /\ resolve.m.keys = KeyNames
    /\ resolve.m.Port = <<"6", "5", "5", "3", "6">>
    /\ resolve.m.Insecure = <<"y", "e", "s">>
    /\ resolve.fromMap.c.Port = 0 /\ ~resolve.fromMap.c.Insecure
    /\ resolve.fromMap.ret.runner

\* C16: with a key path whose file is missing, unreadable or unparsable, both
\* forms still resolve: the Connection is the one a good key file gives but
\* for the credential, which is nil; New goes on to dial, and with a
\* password it dials with password authentication.
C16_BadKeyPathSwallowed ==
    (resolve.called /\ resolve.keyFile # "ok" /\ resolve.v.PubKeyPath # "") =>
        /\ resolve.fromStruct.c =
              [Type |-> resolve.v.Type, Host |-> resolve.v.Host,
               Port |-> resolve.v.Port, User |-> resolve.v.User,
               Password |-> resolve.v.Password,
               PubKeyPath |-> resolve.v.PubKeyPath, PubKey |-> NoKey,
               Insecure |-> resolve.v.Insecure]
        /\ MadeIn(resolve.fromStruct.log, "ssh.Dial")
        /\ resolve.v.Password # "" =>
              resolve.fromStruct.auth = <<PasswordAuth(resolve.v.Password)>>
        /\ "PubKeyPath" \in resolve.m.keys =>
              /\ resolve.fromMap.c =
                    [toConnection(resolve.m, "ok").c EXCEPT !.PubKey = NoKey]
              /\ RestResolved(resolve.m, resolve.fromMap.c)
              /\ MadeIn(resolve.fromMap.log, "ssh.Dial")
              /\ resolve.fromMap.c.Password # "" =>
                    resolve.fromMap.auth = <<PasswordAuth(resolve.m.Password)>>

\* an unparsable key file and a password, in both forms
C16_Witness ==
    /\ resolve.called /\ resolve.keyFile = "unparsable"
    /\ resolve.v.PubKeyPath = "id_rsa" /\ resolve.v.Password = "secret"
    /\ resolve.m.keys = KeyNames
    /\ resolve.fromStruct.auth = <<PasswordAuth("secret")>>
    /\ resolve.fromMap.auth = <<PasswordAuth("secret")>>
    /\ resolve.fromMap.ret.runner /\ resolve.fromStruct.ret.runner

\* the handles of the k-th Session that New returned
HandlesOf(k) == {sessions[k].client, sessions[k].session}

\* C17: New never changes the caller's descriptor, however many calls are
\* made on it and however the calls of concurrent threads interleave: the
\* descriptor keeps every field, each call holds what it resolved (the
\* credential included) in its own Connection, and no two Sessions returned
\* share a client or a session handle.
C17_DescriptorSharedUnchanged ==
    caller.held =>
        /\ caller.now = caller.orig
        /\ \A t \in DOMAIN threads :
              threads[t].pc # "idle" =>
                  threads[t].c = toConnection(caller.orig, caller.keyFile).c
        /\ \A i \in 1..Len(sessions) :
              /\ sessions[i].client # sessions[i].session
              /\ sessions[i].c = toConnection(caller.orig, caller.keyFile).c
              /\ \A j \in 1..Len(sessions) :
                    i # j => HandlesOf(i) \cap HandlesOf(j) = {}

\* two threads inside New at once on a descriptor whose key loads: the second
\* dialed between the first's dial and its session, both returned a Session
\* holding the credential, and a third call is under way
C17_Witness ==
    /\ caller.held /\ caller.orig.PubKeyPath = "id_rsa" /\ caller.keyFile = "ok"
    /\ Len(sessions) = 2
    /\ sessions[1].thread # sessions[2].thread
    /\ sessions[1].client < sessions[2].client
    /\ sessions[2].client < sessions[1].session
    /\ sessions[1].c.PubKey = "id_rsa" /\ sessions[2].c.PubKey = "id_rsa"
    /\ \E t \in Threads : threads[t].pc = "dialed"
    /\ caller.now = caller.orig

====
